---- MODULE Spec2Model ----
(***************************************************************************)
(* Model of resources/actions.py (handle_music): the four batch operations *)
(* get_artwork, id3_correct, file_copy and file_move, each a sequential    *)
(* loop over a Python list of file paths.  One behaviour is one call of    *)
(* one operation.  Strings are sequences of one-character strings, so that *)
(* re.sub, re.split, re.search, str.strip and slicing are computed.        *)
(***************************************************************************)
EXTENDS Integers, Sequences, FiniteSets, TLC

\* Longest file list handed to an operation.
MaxFiles == 2

----------------------------------------------------------------------------
\* String helpers (Python str / re on literal patterns)

Range(s) == {s[i] : i \in 1..Len(s)}

StartsWith(s, p) == Len(s) >= Len(p) /\ SubSeq(s, 1, Len(p)) = p

Drop(s, n) == SubSeq(s, n + 1, Len(s))

\* re.search(pat, s) is not None, for a pattern that matches one literal.
re_search(pat, s) == \E i \in 0..Len(s) : StartsWith(Drop(s, i), pat)

\* re.sub(pat, repl, s): every non-overlapping match, leftmost first.
RECURSIVE re_sub(_, _, _)
re_sub(pat, repl, s) ==
    IF s = <<>> THEN <<>>
    ELSE IF StartsWith(s, pat) THEN repl \o re_sub(pat, repl, Drop(s, Len(pat)))
    ELSE <<Head(s)>> \o re_sub(pat, repl, Tail(s))

\* re.split(pat, s): the list of segments between the matches.
RECURSIVE re_split_acc(_, _, _)
re_split_acc(pat, s, cur) ==
    IF s = <<>> THEN <<cur>>
    ELSE IF StartsWith(s, pat) THEN <<cur>> \o re_split_acc(pat, Drop(s, Len(pat)), <<>>)
    ELSE re_split_acc(pat, Tail(s), Append(cur, Head(s)))

re_split(pat, s) == re_split_acc(pat, s, <<>>)

RECURSIVE lstrip(_)
lstrip(s) == IF s # <<>> /\ Head(s) = " " THEN lstrip(Tail(s)) ELSE s

RECURSIVE rstrip(_)
rstrip(s) == IF s # <<>> /\ s[Len(s)] = " " THEN rstrip(SubSeq(s, 1, Len(s) - 1)) ELSE s

\* str.strip()
strip(s) == rstrip(lstrip(s))

\* s[:-4]
DropLast4(s) == SubSeq(s, 1, Len(s) - 4)

----------------------------------------------------------------------------
\* sd.settings: the configured patterns, each matching one literal.

\* settings["feature_tags"]: matches " feat. "
feature_tags == <<" ", "f", "e", "a", "t", ".", " ">>
\* settings["feature2_tags"]: matches "(feat. "
feature2_tags == <<"(", "f", "e", "a", "t", ".", " ">>
\* settings["and_tags"]: matches " & "
and_tags == <<" ", "&", " ">>
\* settings["invalid_tags"]: matches "(1)"
invalid_tags == <<"(", "1", ")">>

\* The literals of the source.
FtRepl == <<" ", "f", "t", ".", " ">>
Ft2Repl == <<"(", "f", "t", ".", " ">>
DashSep == <<" ", "-", " ">>
InvalidDirName == <<"_", "i", "n", "v", "a", "l", "i", "d">>

----------------------------------------------------------------------------
\* Paths and the files on disk

Path(root, sub, name) == [root |-> root, sub |-> sub, name |-> name]

\* sd.source and the destination the user entered
SrcPath(name) == Path("S", <<>>, name)
\* os.path.join(source, "_invalid", basename)
InvalidPath(name) == Path("S", InvalidDirName, name)
\* os.path.join(destination, artist, basename)
DestPath(artist, name) == Path("D", artist, name)

N_plain == <<"a", " ", "-", " ", "t", ".", "m", "p", "3">>
N_bad == <<"b", "a", "d", ".", "m", "p", "3">>
N_feat == <<"a", " ", "f", "e", "a", "t", ".", " ", "b", " ", "-", " ", "t", ".", "m", "p", "3">>
N_featbad == <<"a", " ", "f", "e", "a", "t", ".", " ", "b", ".", "m", "p", "3">>
N_ft == <<"a", " ", "f", "t", ".", " ", "b", " ", "-", " ", "t", ".", "m", "p", "3">>
N_dup == <<"a", " ", "-", " ", "t", " ", "(", "1", ")", ".", "m", "p", "3">>
N_feat2 == <<"b", " ", "-", " ", "t", " ", "(", "f", "e", "a", "t", ".", " ", "a", ")", ".", "m", "p", "3">>

\* A tag container: a function from the tag names present to their values.
Tags(artist, title) == [artist |-> artist, title |-> title]
OnlyTitle(title) == [title |-> title]

SetTag(t, key, val) == [k \in DOMAIN t \cup {key} |-> IF k = key THEN val ELSE t[k]]

FileOf(audio, tags) == [audio |-> audio, tags |-> tags]

\* The source directory before the run: seven files, each with its audio
\* content and its stored tag container.
InitialFs ==
    (SrcPath(N_plain) :> FileOf(1, Tags(<<"a">>, <<"x">>)))
 @@ (SrcPath(N_bad) :> FileOf(2, OnlyTitle(<<"x">>)))
 @@ (SrcPath(N_feat) :> FileOf(3, Tags(<<"a", " ", "&", " ", "b">>, <<"x">>)))
 @@ (SrcPath(N_featbad) :> FileOf(4, Tags(<<"a", " ", "f", "e", "a", "t", ".", " ", "b">>, <<"x">>)))
 @@ (SrcPath(N_ft) :> FileOf(5, Tags(<<"b">>, <<"x">>)))
 @@ (SrcPath(N_dup) :> FileOf(6, Tags(<<"a">>, <<"x">>)))
 @@ (SrcPath(N_feat2) :> FileOf(7, Tags(<<"b", " ">>, <<"x">>)))

----------------------------------------------------------------------------
\* The state of one call

VARIABLES
    op,        \* the operation called
    platform,  \* the operating system os.rename runs on
    pc,        \* "start", "loop", "done" (returned), "exit" (sys.exit), "aborted" (uncaught exception)
    files,     \* the Python list `files`
    idx,       \* the list iterator's position (1-based)
    pg,        \* the progress bar, once created
    fs,        \* the files on disk: path -> [audio, tags]
    dirs,      \* the artist folders that exist under the destination
    settings,  \* sd.settings: the access token and secret
    config,    \* the tokens stored in resources/config.json
    terminal,  \* what terminal.write has told the user
    exitCode,  \* the process's exit status, once it has ended abnormally
    log,       \* history: one record per loop iteration entered
    files0,    \* history: the list as passed in
    auth       \* history: the authentication path taken

vars == <<op, platform, pc, files, idx, pg, fs, dirs, settings, config,
          terminal, exitCode, log, files0, auth>>

None == "None"

Ops == {"get_artwork", "id3_correct", "file_copy", "file_move"}
Platforms == {"posix", "windows"}

\* The lists of distinct paths of length at most n.
DistinctLists(S, n) ==
    {s \in UNION {[1..k -> S] : k \in 0..n} :
        \A i, j \in 1..Len(s) : i # j => s[i] # s[j]}

Names(o) ==
    IF o = "id3_correct"
    THEN {N_plain, N_bad, N_feat, N_featbad, N_ft, N_dup, N_feat2}
    ELSE IF o = "get_artwork" THEN {N_plain, N_bad, N_feat}
    ELSE {N_plain, N_bad, N_feat, N_featbad, N_ft, N_feat2}

Inputs(o) == DistinctLists({SrcPath(n) : n \in Names(o)}, MaxFiles)

NoAuth == [path |-> "none", rejected |-> FALSE, write |-> "none"]
NoBar == [count |-> 0, total |-> -1]

Init ==
    /\ op \in Ops
    /\ platform \in (IF op \in {"id3_correct", "file_move"} THEN Platforms ELSE {"posix"})
    /\ pc = "start"
    /\ files \in Inputs(op)
    /\ files0 = files
    /\ idx = 1
    /\ pg = NoBar
    /\ fs = InitialFs
    /\ dirs \in (IF op \in {"file_copy", "file_move"} THEN {{}, {<<"a">>}} ELSE {{}})
    /\ settings \in (IF op = "get_artwork"
                     THEN {[access_token |-> None, access_secret |-> None],
                           [access_token |-> "tok", access_secret |-> "sec"]}
                     ELSE {[access_token |-> "tok", access_secret |-> "sec"]})
    /\ config = settings
    /\ terminal = {}
    /\ exitCode = 0
    /\ log = <<>>
    /\ auth = NoAuth

----------------------------------------------------------------------------
\* pt.ProgressBar (resources/per_tools.py)

ProgressBar(n) == [count |-> 0, total |-> n]
inc_and_print(p) == [p EXCEPT !.count = @ + 1]

----------------------------------------------------------------------------
\* Library calls

\* os.rename(src, dst): [ok, fs].  POSIX replaces an existing dst silently,
\* Windows raises FileExistsError.
os_rename(f, src, dst, plat) ==
    IF src \notin DOMAIN f THEN [ok |-> FALSE, fs |-> f]
    ELSE IF src = dst THEN [ok |-> TRUE, fs |-> f]
    ELSE IF dst \in DOMAIN f /\ plat = "windows" THEN [ok |-> FALSE, fs |-> f]
    ELSE [ok |-> TRUE,
          fs |-> [p \in (DOMAIN f \ {src}) \cup {dst} |->
                     IF p = dst THEN f[src] ELSE f[p]]]

\* shutil.copy2(src, dst): [ok, fs]; an existing dst is overwritten.
shutil_copy2(f, src, dst) ==
    IF src \notin DOMAIN f THEN [ok |-> FALSE, fs |-> f]
    ELSE [ok |-> TRUE,
          fs |-> [p \in DOMAIN f \cup {dst} |-> IF p = dst THEN f[src] ELSE f[p]]]

\* list.remove(x): the first occurrence goes; ValueError when there is none.
RECURSIVE list_remove(_, _)
list_remove(s, x) ==
    IF s = <<>> THEN <<>>
    ELSE IF Head(s) = x THEN Tail(s)
    ELSE <<Head(s)>> \o list_remove(Tail(s), x)

\* The tag container stored in the file at path p (none when p is no file).
StoredTags(f, p) == IF p \in DOMAIN f THEN f[p].tags ELSE <<>>

\* The primary artist: split on the and-pattern, then on the feature pattern,
\* first segment of each, trimmed.
PrimaryArtist(artist) ==
    strip(re_split(feature_tags, strip(re_split(and_tags, artist)[1]))[1])

----------------------------------------------------------------------------
\* id3_correct

\* Lines 293-296: the feature flags of the basename replaced by 'ft.'.
Normalize(basename) ==
    re_sub(feature2_tags, Ft2Repl, re_sub(feature_tags, FtRepl, basename))

\* Line 303: the test that sends a file to _invalid.
IsInvalid(basename) ==
    re_search(invalid_tags, basename) \/ Len(re_split(DashSep, basename)) # 2

\* Lines 310 and 314: the tags written from the two tokens.
ArtistOf(basename) == strip(re_split(DashSep, basename)[1])
TitleOf(basename) == strip(DropLast4(re_split(DashSep, basename)[2]))

Id3Faults == {"none", "rename", "relocate", "tagread", "save"}

\* One iteration of the loop of id3_correct on `file`, as a record:
\*   fs, files  the disk and the list afterwards
\*   outcome    "Tagged", "Quarantined", or "Raised" with the step in `raised`
\*   written    whether the tags were saved
\* `fault` is the library call that fails for a reason outside the program.
Id3Item(f, lst, file, fault, plat) ==
    LET basename == Normalize(file.name)
        tmp_file == Path(file.root, file.sub, basename)
        r1 == os_rename(f, file, tmp_file, plat)
        dest == InvalidPath(basename)
        r2 == os_rename(r1.fs, tmp_file, dest, plat)
        base == [input |-> file, norm |-> tmp_file, resides |-> file,
                 fs |-> f, files |-> lst, written |-> FALSE,
                 outcome |-> "Raised", raised |-> "none"]
    IN  IF fault = "rename" \/ ~r1.ok
        THEN [base EXCEPT !.outcome = "Raised", !.raised = "rename"]
        ELSE IF IsInvalid(basename)
        THEN IF fault = "relocate" \/ ~r2.ok
             THEN [base EXCEPT !.outcome = "Raised", !.raised = "relocate",
                               !.fs = r1.fs, !.resides = tmp_file]
             ELSE IF tmp_file \notin Range(lst)
             THEN [base EXCEPT !.outcome = "Quarantined", !.raised = "remove",
                               !.fs = r2.fs, !.resides = dest]
             ELSE [base EXCEPT !.outcome = "Quarantined", !.raised = "none",
                               !.fs = r2.fs, !.resides = dest,
                               !.files = list_remove(lst, tmp_file)]
        ELSE IF fault = "tagread"
        THEN [base EXCEPT !.outcome = "Raised", !.raised = "tagread",
                          !.fs = r1.fs, !.resides = tmp_file]
        ELSE IF fault = "save"
        THEN [base EXCEPT !.outcome = "Raised", !.raised = "save",
                          !.fs = r1.fs, !.resides = tmp_file]
        ELSE [base EXCEPT !.outcome = "Tagged", !.raised = "none",
                          !.resides = tmp_file, !.written = TRUE,
                          !.fs = [r1.fs EXCEPT ![tmp_file].tags =
                                    SetTag(SetTag(@, "artist", ArtistOf(basename)),
                                           "title", TitleOf(basename))]]

\* Lines 241-289: the prelude of id3_correct, file_copy and file_move, up to
\* the progress bar.
Setup ==
    /\ pc = "start"
    /\ op # "get_artwork"
    /\ pg' = ProgressBar(Len(files))
    /\ pc' = "loop"
    /\ UNCHANGED <<op, platform, files, idx, fs, dirs, settings, config,
                   terminal, exitCode, log, files0, auth>>

\* Lines 291-318: one pass of `for file in files`.
Id3Iteration ==
    /\ pc = "loop"
    /\ op = "id3_correct"
    /\ idx <= Len(files)
    /\ \E fault \in Id3Faults :
         LET r == Id3Item(fs, files, files[idx], fault, platform)
             ok == r.raised = "none"
         IN  /\ fs' = r.fs
             /\ files' = r.files
             /\ log' = Append(log, [input |-> r.input, norm |-> r.norm,
                                    resides |-> r.resides, outcome |-> r.outcome,
                                    raised |-> r.raised, terminal |-> r.written,
                                    before |-> StoredTags(fs, r.input)])
             /\ pg' = IF ok THEN inc_and_print(pg) ELSE pg
             /\ idx' = IF ok THEN idx + 1 ELSE idx
             /\ pc' = IF ok THEN "loop" ELSE "aborted"
             /\ exitCode' = IF ok THEN exitCode ELSE 1
    /\ UNCHANGED <<op, platform, dirs, settings, config, terminal, files0, auth>>

\* The list is exhausted: the function returns `files`.
Return ==
    /\ pc = "loop"
    /\ idx > Len(files)
    /\ pc' = "done"
    /\ terminal' = terminal \cup {"Process complete."}
    /\ UNCHANGED <<op, platform, files, idx, pg, fs, dirs, settings, config,
                   exitCode, log, files0, auth>>

----------------------------------------------------------------------------
\* file_copy and file_move

CopyFaults == {"none", "tagread", "mkdir", "copy"}

\* os.mkdir without the except clause: an existing folder raises.
MkdirOutcome_uncaught(exists, fault) ==
    IF exists \/ fault = "mkdir" THEN "raised" ELSE "created"

\* Lines 403-406 (499-502): os.mkdir under try / except FileExistsError.
\* "created", "exists" (the error is caught) or "raised" (any other OSError).
MkdirOutcome(exists, fault) ==
    IF exists THEN "exists"
    ELSE IF fault = "mkdir" THEN "raised"
    ELSE "created"

\* shutil.move(src, dst) of a file to a path on the same disk: os.rename.
shutil_move(f, src, dst, plat) == os_rename(f, src, dst, plat)

\* One iteration of the loop of file_copy / file_move on `file`.
CopyItem(f, d, file, fault, plat, move) ==
    LET readable == file \in DOMAIN f /\ fault # "tagread"
        hasArtist == readable /\ "artist" \in DOMAIN f[file].tags
        artist == PrimaryArtist(f[file].tags["artist"])
        existed == artist \in d
        mk == MkdirOutcome(existed, fault)
        target == DestPath(artist, file.name)
        r == IF move THEN shutil_move(f, file, target, plat)
             ELSE shutil_copy2(f, file, target)
        copied == fault # "copy" /\ r.ok
        base == [input |-> file, raised |-> "none", artist |-> <<>>,
                 existed |-> FALSE, mkdir |-> "none", terminal |-> FALSE,
                 target |-> file, copied |-> FALSE, fs |-> f, dirs |-> d]
    IN  IF ~readable THEN [base EXCEPT !.raised = "tagread"]
        ELSE IF ~hasArtist THEN [base EXCEPT !.raised = "artist"]
        ELSE IF mk = "raised"
        THEN [base EXCEPT !.raised = "mkdir", !.artist = artist, !.mkdir = mk,
                          !.existed = existed]
        ELSE [base EXCEPT !.artist = artist, !.existed = existed, !.mkdir = mk,
                          !.terminal = TRUE, !.target = target, !.copied = copied,
                          !.fs = IF copied THEN r.fs ELSE f,
                          !.dirs = d \cup {artist}]

\* Lines 396-414 and 492-510: one pass of `for file in files`.
CopyIteration ==
    /\ pc = "loop"
    /\ op \in {"file_copy", "file_move"}
    /\ idx <= Len(files)
    /\ \E fault \in CopyFaults :
         LET r == CopyItem(fs, dirs, files[idx], fault, platform, op = "file_move")
             ok == r.raised = "none"
         IN  /\ fs' = r.fs
             /\ dirs' = r.dirs
             /\ log' = Append(log, [input |-> r.input, raised |-> r.raised,
                                    artist |-> r.artist, existed |-> r.existed,
                                    mkdir |-> r.mkdir, terminal |-> r.terminal,
                                    target |-> r.target, copied |-> r.copied])
             /\ pg' = IF ok THEN inc_and_print(pg) ELSE pg
             /\ idx' = IF ok THEN idx + 1 ELSE idx
             /\ pc' = IF ok THEN "loop" ELSE "aborted"
             /\ exitCode' = IF ok THEN exitCode ELSE 1
    /\ UNCHANGED <<op, platform, files, settings, config, terminal, files0, auth>>

----------------------------------------------------------------------------
\* get_artwork

\* The tokens left as they are.
ClearTokens_kept(st) == st

\* Lines 117-118: the tokens cleared.
ClearTokens(st) == [st EXCEPT !.access_token = None, !.access_secret = None]

\* Lines 90-98 and 120-129: json.dump(settings) into resources/config.json.
\* `w` is what open() does: "ok", "notfound" (FileNotFoundError, caught) or
\* "error" (any other OSError, not caught).
WriteConfig(cfg, st, w) == IF w = "ok" THEN st ELSE cfg

WriteOutcomes == {"ok", "notfound", "error"}

ConfigMissing == "Please ensure the existence of the config.json file in resources directory."

\* Lines 65-100: no stored tokens, the interactive flow; then lines 139-173.
AuthInteractive ==
    /\ pc = "start"
    /\ op = "get_artwork"
    /\ settings.access_token = None \/ settings.access_secret = None
    /\ \E verified \in BOOLEAN, w \in WriteOutcomes :
         IF ~verified
         THEN /\ w = "ok"
              /\ terminal' = terminal \cup {"Unable to authenticate."}
              /\ pc' = "exit"
              /\ exitCode' = 1
              /\ auth' = [path |-> "interactive", rejected |-> TRUE, write |-> "none"]
              /\ UNCHANGED <<settings, config, pg>>
         ELSE /\ settings' = [settings EXCEPT !.access_token = "tok",
                                              !.access_secret = "sec"]
              /\ config' = WriteConfig(config, settings', w)
              /\ terminal' = IF w = "notfound" THEN terminal \cup {ConfigMissing}
                             ELSE terminal
              /\ auth' = [path |-> "interactive", rejected |-> FALSE, write |-> w]
              /\ pc' = IF w = "error" THEN "aborted" ELSE "loop"
              /\ exitCode' = IF w = "error" THEN 1 ELSE exitCode
              /\ pg' = IF w = "error" THEN pg ELSE ProgressBar(Len(files))
    /\ UNCHANGED <<op, platform, files, idx, fs, dirs, log, files0>>

\* Lines 102-135: the client built from the stored tokens; then lines 139-173.
AuthStored ==
    /\ pc = "start"
    /\ op = "get_artwork"
    /\ ~(settings.access_token = None \/ settings.access_secret = None)
    /\ \E built \in BOOLEAN, w \in WriteOutcomes :
         IF built
         THEN /\ w = "ok"
              /\ auth' = [path |-> "stored", rejected |-> FALSE, write |-> "none"]
              /\ pc' = "loop"
              /\ pg' = ProgressBar(Len(files))
              /\ UNCHANGED <<settings, config, terminal, exitCode>>
         ELSE /\ settings' = ClearTokens(settings)
              /\ config' = WriteConfig(config, settings', w)
              /\ terminal' = terminal \cup {"Unable to authenticate with discogs."}
                               \cup (IF w = "notfound" THEN {ConfigMissing} ELSE {})
              /\ auth' = [path |-> "stored", rejected |-> TRUE, write |-> w]
              /\ pc' = IF w = "error" THEN "aborted" ELSE "exit"
              /\ exitCode' = 1
              /\ pg' = pg
    /\ UNCHANGED <<op, platform, files, idx, fs, dirs, log, files0>>

ArtFaults == {"none", "open", "tagread"}
SaveOutcomes == {"ok", "fail_clean", "fail_partial"}

\* Lines 193-202: the image fetched: the first result's, else the second's,
\* else none.  u1 and u2 say whether the fetch from that result succeeds.
FetchedImage(nres, u1, u2) ==
    IF nres >= 1 /\ u1 THEN "img1"
    ELSE IF nres >= 2 /\ u2 THEN "img2"
    ELSE "none"

\* The save moved out of the try block: reached whatever was fetched.
SaveCalled_always(img, addOk) == TRUE

\* Lines 203-212: tmp_file.save() is reached only with an image fetched and
\* added.
SaveCalled(img, addOk) == img # "none" /\ addOk

\* One iteration of the loop of get_artwork on `file`.
ArtItem(f, file, fault, nres, u1, u2, addOk, sv) ==
    LET opened == file \in DOMAIN f /\ fault # "open"
        readable == opened /\ fault # "tagread"
        hasArtist == readable /\ "artist" \in DOMAIN f[file].tags
        img == FetchedImage(nres, u1, u2)
        saved == SaveCalled(img, addOk)
        stored == IF saved /\ sv = "ok" THEN SetTag(f[file].tags, "APIC", img)
                  ELSE IF saved /\ sv = "fail_partial"
                  THEN SetTag(f[file].tags, "APIC", "partial")
                  ELSE f[file].tags
        base == [input |-> file, raised |-> "none", artist |-> <<>>,
                 terminal |-> FALSE, nres |-> 0, img |-> "none", added |-> FALSE,
                 saveCalled |-> FALSE, save |-> "ok", fs |-> f]
    IN  IF ~opened THEN [base EXCEPT !.raised = "open"]
        ELSE IF ~readable THEN [base EXCEPT !.raised = "tagread"]
        ELSE IF ~hasArtist THEN [base EXCEPT !.raised = "artist"]
        ELSE [base EXCEPT !.artist = PrimaryArtist(f[file].tags["artist"]),
                          !.terminal = TRUE, !.nres = nres, !.img = img,
                          !.added = (img # "none" /\ addOk),
                          !.saveCalled = saved, !.save = sv,
                          !.fs = [f EXCEPT ![file].tags = stored]]

\* Lines 175-217: one pass of `for file in files`.  Only the provider's
\* answers that the code reads are drawn.
ArtIteration ==
    /\ pc = "loop"
    /\ op = "get_artwork"
    /\ idx <= Len(files)
    /\ \E fault \in ArtFaults, nres \in 0..2, u1, u2, addOk \in BOOLEAN,
          sv \in SaveOutcomes :
         LET r == ArtItem(fs, files[idx], fault, nres, u1, u2, addOk, sv)
             ok == r.raised = "none"
         IN  /\ u1 => nres >= 1
             /\ u2 => (nres = 2 /\ ~u1)
             /\ addOk => r.img # "none"
             /\ sv # "ok" => r.saveCalled
             /\ ~ok => (nres = 0 /\ ~addOk)
             /\ fs' = r.fs
             /\ log' = Append(log, [input |-> r.input, raised |-> r.raised,
                                    artist |-> r.artist, terminal |-> r.terminal,
                                    nres |-> r.nres, img |-> r.img,
                                    added |-> r.added, saveCalled |-> r.saveCalled,
                                    save |-> r.save,
                                    before |-> StoredTags(fs, r.input),
                                    after |-> StoredTags(r.fs, r.input)])
             /\ pg' = IF ok THEN inc_and_print(pg) ELSE pg
             /\ idx' = IF ok THEN idx + 1 ELSE idx
             /\ pc' = IF ok THEN "loop" ELSE "aborted"
             /\ exitCode' = IF ok THEN exitCode ELSE 1
    /\ UNCHANGED <<op, platform, files, dirs, settings, config, terminal, files0, auth>>

----------------------------------------------------------------------------
Next ==
    \/ Setup
    \/ AuthInteractive
    \/ AuthStored
    \/ Id3Iteration
    \/ CopyIteration
    \/ ArtIteration
    \/ Return

Spec == Init /\ [][Next]_vars

----------------------------------------------------------------------------
\* Properties

Entries == 1..Len(log)

\* The steps of an item's processing that can fail.
ItemFailures == {"open", "tagread", "artist", "rename", "relocate", "mkdir", "save"}

\* The iterations that ran to their end (the progress bar was advanced).
Completed == {k \in Entries : log[k].raised = "none"}

\* C1: a failure of a step of one item's processing (tag read, missing
\* artist tag, rename, folder creation for a reason other than 'already
\* exists', tag save) never aborts the batch: the run is never ended by an
\* exception that such a step raised.
C1_FailureIsolation ==
    ~(pc = "aborted" /\ log # <<>> /\ log[Len(log)].raised \in ItemFailures)

\* C2: when a run of id3_correct returns, every item of the input list has
\* been classified (tagged, failed or quarantined), so the classes add up to
\* the length of the input list.
C2_EveryItemClassified ==
    (op = "id3_correct" /\ pc = "done") =>
        Cardinality({k \in Entries : log[k].outcome = "Tagged"})
      + Cardinality({k \in Entries : log[k].outcome = "Raised"})
      + Cardinality({k \in Entries : log[k].outcome = "Quarantined"})
      = Len(files0)

\* C3: every file of the returned list had its terminal per-item operation
\* (tag write, artwork embed attempt, copy, move) attempted exactly once.
C3_ProcessedAttemptedOnce ==
    pc = "done" =>
        \A i \in 1..Len(files) :
            Cardinality({k \in Entries : log[k].input = files[i] /\ log[k].terminal}) = 1

\* C4: the progress bar has total M = the input list's length, counts the
\* items processed so far, never exceeds M, and equals M when the batch
\* completes.
C4_ProgressCounter ==
    pc \in {"loop", "done"} =>
        /\ pg.total = Len(files0)
        /\ pg.count = Cardinality(Completed)
        /\ pg.count <= pg.total
        /\ pc = "done" => pg.count = pg.total

\* C5: in get_artwork the stored tag container is saved only after an image
\* was fetched (from the first result, or from the second when the first
\* attempt fails) and added; with zero results, both fetches failing or the
\* embed failing there is no save, the stored container is unchanged, and the
\* failure is swallowed: the item counts as processed.
C5_ArtworkAllOrNothing ==
    op = "get_artwork" =>
        \A k \in Entries :
            LET e == log[k]
            IN  e.terminal =>
                /\ e.saveCalled => (e.img \in {"img1", "img2"} /\ e.added)
                /\ e.img = "img1" => e.nres >= 1
                /\ e.img = "img2" => e.nres = 2
                /\ ~e.saveCalled => e.after = e.before
                /\ (e.saveCalled /\ e.save = "ok") =>
                       e.after = SetTag(e.before, "APIC", e.img)
                /\ (e.nres = 0 \/ e.img = "none" \/ ~e.added) =>
                       /\ ~e.saveCalled
                       /\ e.after = e.before
                       /\ e.raised = "none"
                       /\ pg.count >= k
                       /\ e.input \in Range(files)

C5_Witness ==
    /\ op = "get_artwork"
    /\ pc = "done"
    /\ \E j, k \in Entries :
         /\ log[j].terminal /\ log[j].nres = 0 /\ log[j].after = log[j].before
         /\ log[k].img = "img2" /\ log[k].saveCalled /\ log[k].save = "ok"
         /\ log[k].after # log[k].before

\* C6: in id3_correct every item whose library calls succeed is renamed to
\* its normalized basename and is then Quarantined (relocated to
\* <source>/_invalid under that basename, tags never written, removed from
\* the list returned) exactly when the normalized basename matches the
\* invalid pattern or does not split on ' - ' into two tokens; otherwise it
\* is Tagged with artist and title from the two tokens.
C6_RetagClassification ==
    op = "id3_correct" =>
        \A k \in Entries :
            LET e == log[k]
            IN  e.raised \notin ItemFailures =>
                /\ e.norm.name = Normalize(e.input.name)
                /\ e.outcome \in {"Tagged", "Quarantined"}
                /\ e.outcome = "Quarantined" <=> IsInvalid(e.norm.name)
                /\ e.outcome = "Quarantined" =>
                       /\ e.resides = InvalidPath(e.norm.name)
                       /\ ~e.terminal
                       /\ e.input \notin Range(files)
                       /\ pc # "aborted"
                /\ e.outcome = "Tagged" =>
                       /\ e.resides = e.norm
                       /\ e.terminal

\* C7 as stated: whenever the provider rejects the authentication, the
\* tokens in settings are cleared, the cleared settings are persisted, the
\* user is informed, the process exits non-zero and no file is processed.
C7_AuthRejectedClearsAndPersists ==
    auth.rejected =>
        /\ settings = ClearTokens(settings)
        /\ config = ClearTokens(config)
        /\ terminal # {}
        /\ exitCode # 0
        /\ log = <<>>

\* C7 as amended: a rejected authentication always informs the user, ends
\* the process with a non-zero status and processes no file.  When the
\* client built from stored tokens is rejected, the tokens in settings are
\* cleared and the write of the cleared settings is attempted: the
\* configuration file holds them when it could be opened and keeps the old
\* tokens when it could not (FileNotFoundError: the user is told to restore
\* the file).  When the verification code is rejected in the interactive
\* flow, settings and configuration file are left as they were.
C7_AuthRejected ==
    auth.rejected =>
        /\ pc \in {"exit", "aborted"}
        /\ pc = "aborted" <=> auth.write = "error"
        /\ exitCode = 1
        /\ log = <<>>
        /\ pg = NoBar
        /\ fs = InitialFs
        /\ auth.path = "stored" =>
              /\ "Unable to authenticate with discogs." \in terminal
              /\ settings = [access_token |-> None, access_secret |-> None]
              /\ auth.write = "ok" => config = settings
              /\ auth.write # "ok" =>
                     config = [access_token |-> "tok", access_secret |-> "sec"]
              /\ auth.write = "notfound" <=> ConfigMissing \in terminal
        /\ auth.path = "interactive" =>
              /\ "Unable to authenticate." \in terminal
              /\ settings.access_token = None \/ settings.access_secret = None
              /\ config = settings
              /\ auth.write = "none"

C7_Witness ==
    /\ auth.rejected
    /\ auth.path = "stored"
    /\ auth.write = "notfound"
    /\ pc = "exit"

\* C8: in file_copy and file_move, when the artist folder of an item already
\* exists the folder creation does not raise, the copy or move into
\* <destination>/<artist>/<basename> is still attempted and, unless the copy
\* itself fails, puts the file there; and one batch creates an artist's
\* folder at most once.
C8_IdempotentFolder ==
    op \in {"file_copy", "file_move"} =>
        /\ \A k \in Entries :
             LET e == log[k]
             IN  e.existed =>
                 /\ e.mkdir = "exists"
                 /\ e.raised = "none"
                 /\ e.terminal
                 /\ e.target = DestPath(PrimaryArtist(InitialFs[e.input].tags["artist"]),
                                        e.input.name)
                 /\ e.copied =>
                       /\ e.target \in DOMAIN fs
                       /\ fs[e.target].audio = InitialFs[e.input].audio
                 /\ (op = "file_copy") => e.input \in DOMAIN fs
                 /\ pg.count >= k
        /\ \A j, k \in Entries :
             (log[j].mkdir = "created" /\ log[k].mkdir = "created"
                /\ log[j].artist = log[k].artist) => j = k

C8_Witness ==
    /\ op \in {"file_copy", "file_move"}
    /\ pc = "done"
    /\ \E j, k \in Entries :
         /\ j < k
         /\ log[j].mkdir = "created"
         /\ log[k].artist = log[j].artist
         /\ log[k].existed /\ log[k].copied

\* C9: no file is deleted or overwritten except by an explicit move: after
\* any run of id3_correct, get_artwork or file_copy every file that existed
\* before the run still exists somewhere with its audio content.
C9_NoFileLost ==
    op # "file_move" =>
        \A p \in DOMAIN InitialFs :
            \E q \in DOMAIN fs : fs[q].audio = InitialFs[p].audio

\* The paths at which the Tagged files of the run reside, in input order.
RECURSIVE TaggedPaths(_)
TaggedPaths(l) ==
    IF l = <<>> THEN <<>>
    ELSE (IF Head(l).outcome = "Tagged" THEN <<Head(l).resides>> ELSE <<>>)
         \o TaggedPaths(Tail(l))

\* C10: the list id3_correct returns is exactly the files Tagged in the run,
\* each under the path at which it resides after the run, in input order,
\* and every path of it exists.
C10_ReturnedList ==
    (op = "id3_correct" /\ pc = "done") =>
        /\ files = TaggedPaths(log)
        /\ \A i \in 1..Len(files) : files[i] \in DOMAIN fs

====
